---- MODULE Spec2Model ----
(***************************************************************************)
(* Model of the value-marshaling layer of scyllaft (src/src/utils.rs):     *)
(*   py_to_value : host (Python) value  -> PyToValue wire variant | error  *)
(*   cql_to_py   : ColumnType x Option<CqlValue> -> host value | error     *)
(*   map_rows    : rows x constructor -> Vec of constructed objects | error*)
(* A behaviour is one call: Init draws the call and its arguments, the     *)
(* actions run the code on them.  An encoded scalar parameter can also be  *)
(* stored and read back (Store), which gives the encode/decode round trip. *)
(***************************************************************************)
EXTENDS Integers, Sequences, FiniteSets, TLC

VARIABLES call, pc, item, encoded, cql_type, cql_value, decoded,
          rows, as_class, idx, mapped_rows, calls, result

vars == <<call, pc, item, encoded, cql_type, cql_value, decoded,
          rows, as_class, idx, mapped_rows, calls, result>>

(***************************************************************************)
(* Bounds of the model.                                                    *)
(***************************************************************************)
\* Longest flat collection (elements of a list, set, map or host sequence).
MaxLen == 2
\* Most elements of a collection whose elements are collections themselves.
MaxOuter == 1
\* Most positions of a tuple descriptor or of a tuple value.
MaxArity == 3
\* Most rows handed to map_rows.
MaxRows == 2
\* Stand-in for i64::MAX: the host integers of the model range over
\* I64Min-1 .. MaxI64+1, so that both overflowing neighbours exist.
MaxI64 == 2

I64Min == -MaxI64 - 1

\* Sequences over S of length 0..n.
SeqUpTo(S, n) == UNION {[1..k -> S] : k \in 0..n}

\* anyhow::Result / PyResult
Ok(v) == [ok |-> TRUE, value |-> v]
Err(m, t) == [ok |-> FALSE, msg |-> m, type_name |-> t]

\* Placeholder of a variable the current call does not use.
Nil == [nil |-> TRUE]

(***************************************************************************)
(* Host (Python) values: the runtime type name and the payload.            *)
(***************************************************************************)
Py(t, v) == [type |-> t, val |-> v]

\* Payloads, each under the name of its sort: an integer, a text (the
\* content of a str, of bytes, or the digits of a float), a truth value, the
\* elements of a container.
N(n) == [int |-> n]
T(s) == [text |-> s]
B(b) == [bool |-> b]
Q(s) == [items |-> s]
\* The entries of a dict: pairs of key and value in insertion order.
D(s) == [entries |-> s]

PyNone == Py("NoneType", T("None"))

\* Textual forms a uuid is written in; parse_str reads each of them.
UuidForms == {"hyphenated", "simple"}

\* str(item) of a host object: only the objects whose text the code reads.
\* uuid.UUID prints the hyphenated form, ipaddress objects print the address;
\* any other class that merely carries one of these names prints what it likes.
PyStr(it) ==
    CASE it.type = "UUID" -> it.val
      [] it.type \in {"IPv4Address", "IPv6Address"} -> it.val
      [] OTHER -> [form |-> "repr", id |-> 0]

\* Python's class hierarchy as far as the classifier can see it:
\* bool is a subclass of int, a named tuple is a subclass of tuple.
BaseOf(t) ==
    CASE t = "bool" -> "int"
      [] t = "Point" -> "tuple"
      [] OTHER -> "object"

is_exact_instance_of(it, cls) == it.type = cls

is_instance_of(it, cls) == it.type = cls \/ BaseOf(it.type) = cls

\* item.extract::<i64>(): the integer value of an int (True is 1, False is 0),
\* an OverflowError when it does not fit 64 bits.
IntValueOf(it) == IF it.type = "bool" THEN (IF it.val.bool THEN 1 ELSE 0) ELSE it.val.int

extract_i64(it) ==
    IF IntValueOf(it) >= I64Min /\ IntValueOf(it) <= MaxI64
    THEN Ok(N(IntValueOf(it)))
    ELSE Err("OverflowError", it.type)

\* uuid::Uuid::parse_str: the 128-bit value of a well-formed text.
Uuid_parse_str(s) ==
    IF s.form \in UuidForms THEN Ok([uuid |-> s.id]) ELSE Err("invalid uuid", "UUID")

\* IpAddr::from_str: the address of a well-formed text, V4 or V6 by its syntax.
IpAddr_from_str(s) ==
    IF s.form \in {"v4", "v6"} THEN Ok([family |-> s.form, addr |-> s.id])
    ELSE Err("invalid IP address syntax", "IpAddr")

(***************************************************************************)
(* PyToValue, the outbound wire value (utils.rs:34-46).                    *)
(***************************************************************************)
Wire(v, x) == [variant |-> v, payload |-> x]

RECURSIVE py_to_value(_), py_to_value_items(_, _, _)

RECURSIVE py_to_value_items_skip(_, _, _)
\* Faulty variant of py_to_value_items: an element that fails to encode is left out
\* instead of ending the encode.
py_to_value_items_skip(elems, i, items) ==
    IF i > Len(elems) THEN Ok(Wire("List", Q(items)))
    ELSE LET r == py_to_value(elems[i])
         IN IF r.ok THEN py_to_value_items_skip(elems, i + 1, Append(items, r.value))
            ELSE py_to_value_items_skip(elems, i + 1, items)

\* The loop of utils.rs:99-103: push each encoded element, the first error
\* leaves the function.
py_to_value_items(elems, i, items) ==
    IF i > Len(elems) THEN Ok(Wire("List", Q(items)))
    ELSE LET r == py_to_value(elems[i])
         IN IF r.ok THEN py_to_value_items(elems, i + 1, Append(items, r.value))
            ELSE r

py_to_value(it) ==
    IF is_instance_of(it, "str") THEN Ok(Wire("String", it.val))
    ELSE IF is_instance_of(it, "int") THEN
        LET r == extract_i64(it) IN IF r.ok THEN Ok(Wire("BigInt", r.value)) ELSE r
    ELSE IF is_instance_of(it, "bool") THEN Ok(Wire("Bool", it.val))
    ELSE IF is_instance_of(it, "float") THEN Ok(Wire("Double", it.val))
    ELSE IF is_instance_of(it, "bytes") THEN Ok(Wire("Bytes", it.val))
    ELSE IF it.type = "UUID" THEN
        LET r == Uuid_parse_str(PyStr(it)) IN IF r.ok THEN Ok(Wire("Uuid", r.value)) ELSE r
    ELSE IF it.type = "IPv4Address" \/ it.type = "IPv6Address" THEN
        LET r == IpAddr_from_str(PyStr(it)) IN IF r.ok THEN Ok(Wire("Inet", r.value)) ELSE r
    ELSE IF \/ is_instance_of(it, "list")
            \/ is_exact_instance_of(it, "tuple")
            \/ is_exact_instance_of(it, "set")
    THEN py_to_value_items(it.val.items, 1, <<>>)
    ELSE Err("Unsupported type for parameter binding", it.type)

(***************************************************************************)
(* The host values a call of py_to_value is given.                         *)
(***************************************************************************)
HostInts == {Py("int", N(n)) : n \in (I64Min - 1)..(MaxI64 + 1)}

HostBools == {Py("bool", B(TRUE)), Py("bool", B(FALSE))}

HostUuids == {Py("UUID", [form |-> "hyphenated", id |-> u]) : u \in {1, 2}}

HostInets == {Py("IPv4Address", [form |-> "v4", id |-> 1]),
              Py("IPv6Address", [form |-> "v6", id |-> 1])}

\* The scalars the encoder supports.
SupportedScalars ==
    {Py("str", T("a")), Py("str", T(""))} \cup {h \in HostInts : extract_i64(h).ok}
    \cup HostBools \cup {Py("float", T("1.5")), Py("float", T("-0.0"))}
    \cup {Py("bytes", T("x01")), Py("bytes", T(""))} \cup HostUuids \cup HostInets

\* Classes of this name that are not the standard library's: their text is
\* not a uuid or an address.
Impostors == {Py("UUID", [form |-> "repr", id |-> 0]),
              Py("IPv4Address", [form |-> "repr", id |-> 0])}

\* Values of types the classifier has no rule for.
UnrecognisedTypes == {"NoneType", "dict", "frozenset", "Point", "Custom", "date"}

Unrecognised == {Py(t, T("opaque")) : t \in UnrecognisedTypes}

HostScalars == SupportedScalars \cup HostInts \cup Impostors \cup Unrecognised

\* Elements of the collections of the model.
HostElems == {Py("int", N(1)), Py("bool", B(TRUE)), Py("str", T("a")),
              Py("int", N(MaxI64 + 1)), Py("Custom", T("opaque"))}

\* Python's == between elements, which a set uses to tell duplicates: True == 1.
PyEq(a, b) ==
    \/ a = b
    \/ /\ is_instance_of(a, "int") /\ is_instance_of(b, "int")
       /\ IntValueOf(a) = IntValueOf(b)

NoDuplicates(s) == \A i, j \in 1..Len(s) : i # j => ~PyEq(s[i], s[j])

\* A collection of the given elements; a set holds no two equal elements and
\* val lists them in the order iteration yields them.
Collections(elems, n) ==
    {Py(t, Q(s)) : t \in {"list", "tuple"}, s \in SeqUpTo(elems, n)}
    \cup {Py("set", Q(s)) : s \in {q \in SeqUpTo(elems, n) : NoDuplicates(q)}}

FlatCollections == Collections(HostElems, MaxLen)

\* Lists and tuples whose elements are collections (a set holds no list).
NestedCollections ==
    {Py(t, Q(s)) : t \in {"list", "tuple"},
                   s \in SeqUpTo(HostElems \cup FlatCollections, MaxOuter) \ {<<>>}}

HostValues == HostScalars \cup FlatCollections \cup NestedCollections

(***************************************************************************)
(* ColumnType, the inbound type descriptor, and CqlValue, the decoded      *)
(* protocol value (scylla crate; used at utils.rs:128-295).                *)
(***************************************************************************)
CT(t) == [tag |-> t, targs |-> <<>>]
ListOf(t) == [tag |-> "List", targs |-> <<t>>]
SetOf(t) == [tag |-> "Set", targs |-> <<t>>]
MapOf(k, v) == [tag |-> "Map", targs |-> <<k, v>>]
TupleOf(ts) == [tag |-> "Tuple", targs |-> ts]

Cql(k, v) == [kind |-> k, data |-> v]

\* Option<&CqlValue>
None == [some |-> FALSE]
Some(v) == [some |-> TRUE, v |-> v]

\* The typed accessors of CqlValue: each answers only for its own variant
\* (as_duration answers for the two variants that hold a chrono Duration).
as_ascii(v) == v.kind = "Ascii"
as_boolean(v) == v.kind = "Boolean"
as_blob(v) == v.kind = "Blob"
as_double(v) == v.kind = "Double"
as_int(v) == v.kind = "Int"
as_bigint(v) == v.kind = "BigInt"
as_text(v) == v.kind = "Text"
as_list(v) == v.kind = "List"
as_map(v) == v.kind = "Map"
as_set(v) == v.kind = "Set"
as_smallint(v) == v.kind = "SmallInt"
as_tinyint(v) == v.kind = "TinyInt"
as_uuid(v) == v.kind = "Uuid"
as_timeuuid(v) == v.kind = "Timeuuid"
as_duration(v) == v.kind \in {"Timestamp", "Time"}
as_inet(v) == v.kind = "Inet"
as_date(v) == v.kind = "Date"

\* Python's hash(): lists, sets and dicts have none.
Hashable(h) ==
    /\ h.type \notin {"list", "set", "dict"}
    /\ h.type = "tuple" =>
          \A i \in 1..Len(h.val.items) : h.val.items[i].type \notin {"list", "set", "dict"}

RECURSIVE PySet_add(_, _, _)
\* PySet::new(py, items): add the items one by one, an equal one is already there.
PySet_add(elems, i, acc) ==
    IF i > Len(elems) THEN Ok(Py("set", Q(acc)))
    ELSE IF ~Hashable(elems[i]) THEN Err("TypeError: unhashable type", elems[i].type)
    ELSE IF \E j \in 1..Len(acc) : PyEq(acc[j], elems[i])
         THEN PySet_add(elems, i + 1, acc)
         ELSE PySet_add(elems, i + 1, Append(acc, elems[i]))

PySet_new(elems) == PySet_add(elems, 1, <<>>)

RECURSIVE PyDict_set_items(_, _, _)
\* The loop of utils.rs:191-194: set_item replaces the value of an equal key.
PyDict_set_items(pairs, i, acc) ==
    IF i > Len(pairs) THEN Ok(Py("dict", D(acc)))
    ELSE IF ~Hashable(pairs[i][1]) THEN Err("TypeError: unhashable type", pairs[i][1].type)
    ELSE IF \E j \in 1..Len(acc) : PyEq(acc[j][1], pairs[i][1])
         THEN PyDict_set_items(pairs, i + 1,
                  [j \in 1..Len(acc) |->
                      IF PyEq(acc[j][1], pairs[i][1]) THEN <<acc[j][1], pairs[i][2]>> ELSE acc[j]])
         ELSE PyDict_set_items(pairs, i + 1, Append(acc, pairs[i]))

\* uuid.UUID(hex): the host uuid of the given text, which prints hyphenated.
PyUUID_call(s) ==
    IF s.form \in UuidForms THEN Ok(Py("UUID", [form |-> "hyphenated", id |-> s.id]))
    ELSE Err("ValueError: badly formed hexadecimal UUID string", "UUID")

\* IpAddr::to_object: the ipaddress object of the address family.
IpAddr_to_object(a) ==
    Py(IF a.family = "v4" THEN "IPv4Address" ELSE "IPv6Address",
       [form |-> a.family, id |-> a.addr])

UnsupportedTags == {"Time", "Counter", "Custom", "Varint", "Decimal", "UserDefinedType"}

\* Faulty variant of NotYetSupported: a variable-length integer is answered with a
\* best-effort value instead of an error.
NotYetSupported_guess(tag) ==
    IF tag = "Varint" THEN Ok(Py("int", N(0))) ELSE Err("not yet supported.", tag)

NotYetSupported(tag) ==
    CASE tag = "Time" -> Err("Time is not yet supported.", tag)
      [] tag = "Counter" -> Err("Counter is not yet supported.", tag)
      [] tag = "Custom" -> Err("Custom types are not yet supported.", tag)
      [] tag = "Varint" -> Err("Variant is not yet supported.", tag)
      [] tag = "Decimal" -> Err("Decimals are not yet supported.", tag)
      [] tag = "UserDefinedType" -> Err("UDT is not yet supported.", tag)

Min(a, b) == IF a < b THEN a ELSE b

\* accessor().ok_or(anyhow!(msg)).map(|val| host value of val)
OkOr(some, msg, t, host) == IF some THEN Ok(host) ELSE Err(msg, t)

RECURSIVE cql_to_py(_, _), cql_to_py_match(_, _), cql_to_py_items(_, _, _, _),
          cql_to_py_pairs(_, _, _, _, _), cql_to_py_zip(_, _, _, _),
          cql_to_py_items_skip(_, _, _, _)

\* Faulty variant of cql_to_py_items: an element that fails to decode is left out
\* instead of ending the decode.
cql_to_py_items_skip(column_type, elems, i, items) ==
    IF i > Len(elems) THEN Ok(items)
    ELSE LET r == cql_to_py(column_type, Some(elems[i]))
         IN IF r.ok THEN cql_to_py_items_skip(column_type, elems, i + 1, Append(items, r.value))
            ELSE cql_to_py_items_skip(column_type, elems, i + 1, items)

\* .iter().map(|val| cql_to_py(py, column_type, Some(val))).collect::<Result<Vec<_>, _>>()
cql_to_py_items(column_type, elems, i, items) ==
    IF i > Len(elems) THEN Ok(items)
    ELSE LET r == cql_to_py(column_type, Some(elems[i]))
         IN IF r.ok THEN cql_to_py_items(column_type, elems, i + 1, Append(items, r.value))
            ELSE r

\* The pairs of a map: the key first, then the value (utils.rs:183-189).
cql_to_py_pairs(key_type, val_type, pairs, i, map_values) ==
    IF i > Len(pairs) THEN Ok(map_values)
    ELSE LET k == cql_to_py(key_type, Some(pairs[i][1]))
         IN IF ~k.ok THEN k
            ELSE LET v == cql_to_py(val_type, Some(pairs[i][2]))
                 IN IF ~v.ok THEN v
                    ELSE cql_to_py_pairs(key_type, val_type, pairs, i + 1,
                                         Append(map_values, <<k.value, v.value>>))

\* for (col_type, col_val) in types.iter().zip(data): zip ends with the
\* shorter of the two (utils.rs:276-278).
cql_to_py_zip(types, data, i, dumped_elemets) ==
    IF i > Min(Len(types), Len(data)) THEN Ok(Py("tuple", Q(dumped_elemets)))
    ELSE LET r == cql_to_py(types[i], data[i])
         IN IF r.ok THEN cql_to_py_zip(types, data, i + 1, Append(dumped_elemets, r.value))
            ELSE r

\* Faulty variant of cql_to_py: the unsupported descriptors are rejected before the
\* value is looked at.
cql_to_py_match_first(ty, opt) ==
    IF ty.tag \in UnsupportedTags THEN NotYetSupported(ty.tag)
    ELSE IF ~opt.some THEN Ok(PyNone) ELSE cql_to_py_match(ty, opt.v)

\* The let-else of utils.rs:133-135, then the match.
cql_to_py(ty, opt) ==
    IF ~opt.some THEN Ok(PyNone) ELSE cql_to_py_match(ty, opt.v)

\* match cql_type { ... } on the unwrapped value (utils.rs:136-294).
cql_to_py_match(ty, v) ==
    LET t == ty.tag IN
    CASE t = "Ascii" -> OkOr(as_ascii(v), "Cannot parse", t, Py("str", v.data))
      [] t = "Boolean" -> OkOr(as_boolean(v), "Cannot parse", t, Py("bool", v.data))
      [] t = "Blob" -> OkOr(as_blob(v), "Cannot parse", t, Py("bytes", v.data))
      [] t = "Double" -> OkOr(as_double(v), "Cannot parse", t, Py("float", v.data))
      [] t = "Float" -> OkOr(as_double(v), "Cannot parse", t, Py("float", v.data))
      [] t = "Int" -> OkOr(as_int(v), "Cannot parse", t, Py("int", v.data))
      [] t = "BigInt" -> OkOr(as_bigint(v), "Cannot parse", t, Py("int", v.data))
      [] t = "Text" -> OkOr(as_text(v), "Cannot parse", t, Py("str", v.data))
      [] t = "List" ->
            IF ~as_list(v) THEN Err("Cannot parse", t)
            ELSE LET r == cql_to_py_items(ty.targs[1], v.data.items, 1, <<>>)
                 IN IF r.ok THEN Ok(Py("list", Q(r.value))) ELSE r
      [] t = "Map" ->
            IF ~as_map(v) THEN Err("Cannot parse", t)
            ELSE LET r == cql_to_py_pairs(ty.targs[1], ty.targs[2], v.data.items, 1, <<>>)
                 IN IF r.ok THEN PyDict_set_items(r.value, 1, <<>>) ELSE r
      [] t = "Set" ->
            IF ~as_set(v) THEN Err("Cannot parse", t)
            ELSE LET r == cql_to_py_items(ty.targs[1], v.data.items, 1, <<>>)
                 IN IF r.ok THEN PySet_new(r.value) ELSE r
      [] t = "SmallInt" -> OkOr(as_smallint(v), "Cannot parse", t, Py("int", v.data))
      [] t = "TinyInt" -> OkOr(as_tinyint(v), "Cannot parse", t, Py("int", v.data))
      [] t = "Uuid" ->
            IF ~as_uuid(v) THEN Err("", t)
            ELSE PyUUID_call([form |-> "simple", id |-> v.data.uuid])
      [] t = "Timeuuid" ->
            IF ~as_timeuuid(v) THEN Err("Cannot parse timeuuid", t)
            ELSE PyUUID_call([form |-> "simple", id |-> v.data.uuid])
      [] t = "Duration" ->
            OkOr(as_duration(v), "Cannot parse duration", t, Py("timedelta", v.data))
      [] t = "Timestamp" ->
            OkOr(as_duration(v), "Cannot parse timestamp", t, Py("int", v.data))
      [] t = "Inet" ->
            IF ~as_inet(v) THEN Err("Cannot parse inet addres", t)
            ELSE Ok(IpAddr_to_object(v.data))
      [] t = "Date" -> OkOr(as_date(v), "Cannot parse date", t, Py("date", v.data))
      [] t = "Tuple" ->
            IF v.kind = "Tuple" THEN cql_to_py_zip(ty.targs, v.data.items, 1, <<>>)
            ELSE Err("Cannot parse as tuple.", t)
      [] t \in UnsupportedTags -> NotYetSupported(t)

(***************************************************************************)
(* The descriptors and protocol values a call of cql_to_py is given.       *)
(***************************************************************************)
ScalarTags == {"Ascii", "Boolean", "Blob", "Double", "Float", "Int", "BigInt", "Text",
               "SmallInt", "TinyInt", "Uuid", "Timeuuid", "Duration", "Timestamp",
               "Inet", "Date"}

LeafTypes == {CT(t) : t \in ScalarTags \cup UnsupportedTags}

\* Element types of the collections of the model.
ElemTypes == {CT("Int"), CT("Text")} \cup {CT(t) : t \in UnsupportedTags}

\* Position types of the tuples of the model.
TupleElemTypes == {CT("Int"), CT("Text"), CT("Time"), CT("Decimal")}

ColumnTypes ==
    LeafTypes
    \cup {ListOf(t) : t \in ElemTypes} \cup {SetOf(t) : t \in ElemTypes}
    \cup {MapOf(k, v) : k \in ElemTypes, v \in ElemTypes}
    \cup {TupleOf(ts) : ts \in SeqUpTo(TupleElemTypes, MaxArity)}
    \cup {ListOf(ListOf(t)) : t \in ElemTypes}

Int1 == Cql("Int", N(1))
Int2 == Cql("Int", N(2))
TextA == Cql("Text", T("a"))

ScalarValues ==
    {Cql("Ascii", T("a")), Cql("Boolean", B(TRUE)), Cql("Boolean", B(FALSE)),
     Cql("Blob", T("x01")), Cql("Double", T("1.5")), Cql("Float", T("1.5")),
     Int1, Int2, Cql("BigInt", N(1)), TextA, Cql("Text", T("b")),
     Cql("SmallInt", N(1)), Cql("TinyInt", N(1)),
     Cql("Uuid", [uuid |-> 1]), Cql("Timeuuid", [uuid |-> 1]),
     Cql("Inet", [family |-> "v4", addr |-> 1]), Cql("Inet", [family |-> "v6", addr |-> 1]),
     Cql("Counter", N(1)), Cql("Varint", N(1)), Cql("Empty", N(0))}

ElemValues == {Int1, Int2, TextA}

MapEntries == {<<Int1, Int1>>, <<Int1, Int2>>, <<Int2, TextA>>, <<TextA, Int1>>}

InnerLists == {Cql("List", Q(s)) : s \in {<<>>, <<Int1>>, <<Int1, Int2>>, <<Int2, Int1>>,
                                          <<TextA>>}}

CqlValues ==
    ScalarValues
    \cup {Cql("List", Q(s)) : s \in SeqUpTo(ElemValues, MaxLen)}
    \cup {Cql("Set", Q(s)) : s \in SeqUpTo(ElemValues, MaxLen)}
    \cup {Cql("Map", Q(s)) : s \in SeqUpTo(MapEntries, MaxLen)}
    \cup {Cql("Tuple", Q(s)) : s \in SeqUpTo({None, Some(Int1), Some(TextA)}, MaxArity)}
    \cup {Cql("List", Q(s)) : s \in SeqUpTo(InnerLists, MaxLen) \ {<<>>}}

OptCqlValues == {None} \cup {Some(v) : v \in CqlValues}

(***************************************************************************)
(* A stored parameter read back: the column of the wire variant's kind and *)
(* the protocol value the driver decodes from what serialize wrote         *)
(* (utils.rs:48-64).                                                       *)
(***************************************************************************)
ColumnOf(w) ==
    CASE w.variant = "String" -> CT("Text")
      [] w.variant = "BigInt" -> CT("BigInt")
      [] w.variant = "Int" -> CT("Int")
      [] w.variant = "SmallInt" -> CT("SmallInt")
      [] w.variant = "Bool" -> CT("Boolean")
      [] w.variant = "Double" -> CT("Double")
      [] w.variant = "Float" -> CT("Float")
      [] w.variant = "Bytes" -> CT("Blob")
      [] w.variant = "Uuid" -> CT("Uuid")
      [] w.variant = "Inet" -> CT("Inet")

serialize(w) == Cql(ColumnOf(w).tag, w.payload)

(***************************************************************************)
(* map_rows (utils.rs:308-329): the rows, the constructor and its calls.   *)
(***************************************************************************)
\* A row: a dict of column name and decoded value, in insertion order.
Row(entries) == Py("dict", D(entries))

Key(name) == Py("str", T(name))

RowObjects ==
    {Row(<<<<Key("id"), Py("int", N(1))>>, <<Key("name"), Py("str", T("a"))>>>>),
     Row(<<<<Key("id"), Py("int", N(2))>>, <<Key("name"), Py("str", T("b"))>>>>),
     Row(<<<<Key("id"), Py("int", N(2))>>>>),
     Py("tuple", Q(<<Py("int", N(3)), Py("str", T("c"))>>)),
     PyNone}

RowsInputs ==
    {Py("list", Q(s)) : s \in SeqUpTo(RowObjects, MaxRows)}
    \cup {Py("tuple", Q(<<>>)), PyNone}

\* The constructors of the model: a class whose __init__ takes exactly the
\* keywords id and name, the builtin dict, which takes any keywords, and an
\* object that is no callable at all.
Callables == {Py("type", T("Record")), Py("type", T("dict")), Py("int", N(1))}

Keywords(kwargs) == {kwargs[i][1].val.text : i \in 1..Len(kwargs)}

\* as_class.call(py, (), Some(kwargs)): the constructed object or the exception.
PyCall(callee, kwargs) ==
    IF callee.type # "type" THEN Err("TypeError: object is not callable", callee.type)
    ELSE IF callee.val.text = "dict" THEN Ok(Py("dict", D(kwargs)))
    ELSE IF Keywords(kwargs) = {"id", "name"} THEN Ok(Py(callee.val.text, D(kwargs)))
    ELSE Err("TypeError: __init__() missing or unexpected keyword argument", callee.val.text)

InitEncode ==
    /\ call = "py_to_value"
    /\ pc = "start"
    /\ item \in HostValues
    /\ encoded = Nil
    /\ cql_type = Nil /\ cql_value = Nil /\ decoded = Nil
    /\ rows = Nil /\ as_class = Nil /\ idx = 0 /\ mapped_rows = <<>>
    /\ calls = <<>> /\ result = Nil

InitDecode ==
    /\ call = "cql_to_py"
    /\ pc = "stored"
    /\ item = Nil /\ encoded = Nil
    /\ cql_type \in ColumnTypes
    /\ cql_value \in OptCqlValues
    /\ decoded = Nil
    /\ rows = Nil /\ as_class = Nil /\ idx = 0 /\ mapped_rows = <<>>
    /\ calls = <<>> /\ result = Nil

InitMapRows ==
    /\ call = "map_rows"
    /\ pc = "start"
    /\ item = Nil /\ encoded = Nil
    /\ cql_type = Nil /\ cql_value = Nil /\ decoded = Nil
    /\ rows \in RowsInputs
    /\ as_class \in Callables
    /\ idx = 0 /\ mapped_rows = <<>> /\ calls = <<>> /\ result = Nil

Init == InitEncode \/ InitDecode \/ InitMapRows

\* py_to_value(item)
PyToValue ==
    /\ call = "py_to_value" /\ pc = "start"
    /\ encoded' = py_to_value(item)
    /\ pc' = "encoded"
    /\ UNCHANGED <<call, item, cql_type, cql_value, decoded,
                   rows, as_class, idx, mapped_rows, calls, result>>

\* The encoded scalar is bound, written to a column of its kind and read back.
Store ==
    /\ call = "py_to_value" /\ pc = "encoded"
    /\ encoded.ok /\ encoded.value.variant # "List"
    /\ cql_type' = ColumnOf(encoded.value)
    /\ cql_value' = Some(serialize(encoded.value))
    /\ pc' = "stored"
    /\ UNCHANGED <<call, item, encoded, decoded,
                   rows, as_class, idx, mapped_rows, calls, result>>

\* cql_to_py(py, cql_type, cql_value)
CqlToPy ==
    /\ pc = "stored"
    /\ decoded' = cql_to_py(cql_type, cql_value)
    /\ pc' = "decoded"
    /\ UNCHANGED <<call, item, encoded, cql_type, cql_value,
                   rows, as_class, idx, mapped_rows, calls, result>>

\* rows.downcast::<PyList>(py).map_err(..)?.iter()
MapRowsDowncast ==
    /\ call = "map_rows" /\ pc = "start"
    /\ IF is_instance_of(rows, "list")
       THEN /\ idx' = 1 /\ pc' = "iter" /\ result' = result
       ELSE /\ result' = Err("Cannot downcast rows to list.", rows.type)
            /\ pc' = "done" /\ idx' = idx
    /\ UNCHANGED <<call, item, encoded, cql_type, cql_value, decoded,
                   rows, as_class, mapped_rows, calls>>

\* Faulty variant of MapRowsNext: a row that is no dict or whose construction fails
\* is skipped and the iteration goes on.
MapRowsNext_skip ==
    /\ call = "map_rows" /\ pc = "iter" /\ idx <= Len(rows.val.items)
    /\ LET obj == rows.val.items[idx]
           r == PyCall(as_class, obj.val.entries)
       IN /\ idx' = idx + 1
          /\ IF is_instance_of(obj, "dict") /\ r.ok
             THEN /\ mapped_rows' = Append(mapped_rows, r.value)
                  /\ calls' = Append(calls, obj.val.entries)
             ELSE UNCHANGED <<mapped_rows, calls>>
    /\ UNCHANGED <<call, pc, item, encoded, cql_type, cql_value, decoded,
                   rows, as_class, result>>

\* One turn of .map(|obj| as_class.call(py, (), Some(obj.downcast::<PyDict>()?)))
\* under collect::<Result<Vec<_>, _>>()?: the first error ends the iteration
\* and drops what was collected.
MapRowsNext ==
    /\ call = "map_rows" /\ pc = "iter" /\ idx <= Len(rows.val.items)
    /\ LET obj == rows.val.items[idx]
       IN IF ~is_instance_of(obj, "dict")
          THEN /\ result' = Err("Cannot preapre kwargs for mapping.", obj.type)
               /\ pc' = "done" /\ mapped_rows' = <<>>
               /\ UNCHANGED <<idx, calls>>
          ELSE LET r == PyCall(as_class, obj.val.entries)
               IN /\ calls' = Append(calls, obj.val.entries)
                  /\ IF r.ok
                     THEN /\ mapped_rows' = Append(mapped_rows, r.value)
                          /\ idx' = idx + 1
                          /\ UNCHANGED <<pc, result>>
                     ELSE /\ result' = r /\ pc' = "done" /\ mapped_rows' = <<>>
                          /\ idx' = idx
    /\ UNCHANGED <<call, item, encoded, cql_type, cql_value, decoded, rows, as_class>>

\* The iterator is exhausted: Ok(mapped_rows).
MapRowsCollect ==
    /\ call = "map_rows" /\ pc = "iter" /\ idx > Len(rows.val.items)
    /\ result' = Ok(mapped_rows)
    /\ pc' = "done"
    /\ UNCHANGED <<call, item, encoded, cql_type, cql_value, decoded,
                   rows, as_class, idx, mapped_rows, calls>>

Next ==
    \/ PyToValue
    \/ Store
    \/ CqlToPy
    \/ MapRowsDowncast
    \/ MapRowsNext
    \/ MapRowsCollect

Spec == Init /\ [][Next]_vars

(***************************************************************************)
(* Properties.                                                             *)
(***************************************************************************)
\* py_to_value has returned.
Encoded == call = "py_to_value" /\ pc # "start"

\* cql_to_py has returned on a present value.
DecodedPresent == pc = "decoded" /\ cql_value.some

UnsupportedMsg == "Unsupported type for parameter binding"

\* C1: py_to_value classifies every host boolean (True or False) as the Bool
\* wire variant, never as an integer variant.
C1_BoolIsBoolVariant ==
    (Encoded /\ item.type = "bool") => (encoded.ok /\ encoded.value.variant = "Bool")

\* C2: decoding a tuple descriptor against a tuple value with another number
\* of elements than the descriptor has positions fails; no tuple is returned.
C2_TupleArityMismatchFails ==
    (/\ DecodedPresent
     /\ cql_type.tag = "Tuple" /\ cql_value.v.kind = "Tuple"
     /\ Len(cql_type.targs) # Len(cql_value.v.data.items))
    => ~decoded.ok

\* C3: for every descriptor, scalar, composite or unsupported, cql_to_py of
\* an absent value returns the host None and never an error.
C3_AbsentDecodesToNone ==
    (pc = "decoded" /\ ~cql_value.some) => decoded = Ok(PyNone)

C3_Witness ==
    /\ pc = "decoded" /\ ~cql_value.some
    /\ cql_type = MapOf(CT("Int"), CT("Decimal"))
    /\ decoded = Ok(PyNone)

\* C4: every supported scalar host value encodes, and decoding what was
\* stored of it against the column of its wire kind gives back an equal host
\* value of the same host type.
C4_ScalarRoundTrip ==
    (call = "py_to_value" /\ item \in SupportedScalars) =>
        /\ pc = "encoded" => encoded.ok
        /\ pc = "decoded" => decoded = Ok(item)

\* Every row is a dict the constructor accepts.
AllRowsConstruct ==
    /\ rows.type = "list"
    /\ \A i \in 1..Len(rows.val.items) :
          rows.val.items[i].type = "dict" /\ PyCall(as_class, rows.val.items[i].val.entries).ok

\* C5: when every row is a mapping and every construction succeeds, map_rows
\* has called the constructor once per row with the row's entries, in order,
\* and returns the constructed objects in input order, one per row; in every
\* other case it returns an error and no list.
C5_MapRowsAllOrNothing ==
    (call = "map_rows" /\ pc = "done") =>
        IF AllRowsConstruct
        THEN /\ result.ok
             /\ Len(result.value) = Len(rows.val.items)
             /\ \A i \in 1..Len(rows.val.items) :
                   result.value[i] = PyCall(as_class, rows.val.items[i].val.entries).value
             /\ calls = [i \in 1..Len(rows.val.items) |-> rows.val.items[i].val.entries]
        ELSE ~result.ok

C5_Witness ==
    /\ call = "map_rows" /\ pc = "done"
    /\ as_class = Py("type", T("Record"))
    /\ rows.type = "list" /\ Len(rows.val.items) = 2
    /\ rows.val.items[2] = Row(<<<<Key("id"), Py("int", N(2))>>>>)
    /\ Len(calls) = 2
    /\ ~result.ok

RECURSIVE HasUnrecognised(_)
\* The value, or an element of it at any depth, is of an unrecognised type.
HasUnrecognised(it) ==
    IF it.type \in {"list", "tuple", "set"}
    THEN \E i \in 1..Len(it.val.items) : HasUnrecognised(it.val.items[i])
    ELSE it.type \in UnrecognisedTypes

RECURSIVE Leaves(_), LeavesFrom(_, _)
LeavesFrom(s, i) == IF i > Len(s) THEN <<>> ELSE Leaves(s[i]) \o LeavesFrom(s, i + 1)

\* The values that are no collection, in the order iteration meets them.
Leaves(it) ==
    IF it.type \in {"list", "tuple", "set"} THEN LeavesFrom(it.val.items, 1) ELSE <<it>>

FailingLeaves(it) == SelectSeq(Leaves(it), LAMBDA l : ~py_to_value(l).ok)

\* C6 as stated: a value of an unrecognised type, or a collection holding one
\* at any depth, fails to encode with the unsupported-parameter-type error
\* that carries the type name.
C6_AlwaysTheUnsupportedError ==
    (Encoded /\ HasUnrecognised(item)) =>
        /\ ~encoded.ok
        /\ encoded.msg = UnsupportedMsg
        /\ encoded.type_name \in UnrecognisedTypes

\* C6 as amended: a value of an unrecognised type fails to encode with the
\* unsupported-parameter-type error carrying its type name; a collection
\* holding one at any depth fails to encode, with the error of the first
\* element in iteration order whose own encode fails, which is that
\* unsupported-type error unless an element of a recognised kind before it
\* fails its own extraction or parse.
C6_FirstFailingElementDecides ==
    (Encoded /\ HasUnrecognised(item)) =>
        /\ ~encoded.ok
        /\ item.type \in UnrecognisedTypes => encoded = Err(UnsupportedMsg, item.type)
        /\ Len(FailingLeaves(item)) > 0
        /\ LET bad == Head(FailingLeaves(item))
           IN IF bad.type \in UnrecognisedTypes
              THEN encoded = Err(UnsupportedMsg, bad.type)
              ELSE encoded = py_to_value(bad) /\ encoded.msg # UnsupportedMsg

C6_Witness ==
    /\ Encoded
    /\ item = Py("list", Q(<<Py("tuple", Q(<<Py("int", N(1)), Py("Custom", T("opaque"))>>))>>))
    /\ encoded = Err(UnsupportedMsg, "Custom")

NotYetSupportedMsgs ==
    {"Time is not yet supported.", "Counter is not yet supported.",
     "Custom types are not yet supported.", "Variant is not yet supported.",
     "Decimals are not yet supported.", "UDT is not yet supported."}

RECURSIVE MeetsUnsupported(_, _)
\* The present value v is paired with an unsupported descriptor: ty is one,
\* or ty is a list, set, map or tuple of v's shape and one of v's present
\* elements is paired with one.
MeetsUnsupported(ty, v) ==
    CASE ty.tag \in UnsupportedTags -> TRUE
      [] ty.tag \in {"List", "Set"} ->
            /\ v.kind = ty.tag
            /\ \E i \in 1..Len(v.data.items) : MeetsUnsupported(ty.targs[1], v.data.items[i])
      [] ty.tag = "Map" ->
            /\ v.kind = "Map"
            /\ \E i \in 1..Len(v.data.items) :
                  \/ MeetsUnsupported(ty.targs[1], v.data.items[i][1])
                  \/ MeetsUnsupported(ty.targs[2], v.data.items[i][2])
      [] ty.tag = "Tuple" ->
            /\ v.kind = "Tuple"
            /\ \E i \in 1..Min(Len(ty.targs), Len(v.data.items)) :
                  v.data.items[i].some /\ MeetsUnsupported(ty.targs[i], v.data.items[i].v)
      [] OTHER -> FALSE

C8_ListElementwiseInOrder ==
    (DecodedPresent /\ cql_type.tag = "List" /\ cql_value.v.kind = "List") =>
        LET elems == cql_value.v.data.items
            each == [i \in 1..Len(elems) |-> cql_to_py(cql_type.targs[1], Some(elems[i]))]
        IN IF \A i \in 1..Len(elems) : each[i].ok
           THEN decoded = Ok(Py("list", Q([i \in 1..Len(elems) |-> each[i].value])))
           ELSE ~decoded.ok

C8_Witness ==
    /\ DecodedPresent
    /\ cql_type = ListOf(CT("Int"))
    /\ cql_value.v = Cql("List", Q(<<Int2, Int1>>))
    /\ decoded = Ok(Py("list", Q(<<Py("int", N(2)), Py("int", N(1))>>)))

PrimitiveTags == {"Ascii", "Text", "Boolean", "Blob", "TinyInt", "SmallInt", "Int",
                  "BigInt", "Float", "Double"}

HostPrimitiveOf(tag) ==
    CASE tag \in {"Ascii", "Text"} -> "str"
      [] tag = "Boolean" -> "bool"
      [] tag = "Blob" -> "bytes"
      [] tag \in {"TinyInt", "SmallInt", "Int", "BigInt"} -> "int"
      [] tag \in {"Float", "Double"} -> "float"

\* C9: a present value of exactly the kind of a text, boolean, blob, integer
\* or floating descriptor decodes to the host primitive with its payload; a
\* float column holding a single-precision value decodes to a host float.
C9_MatchingScalarDecodes ==
    (DecodedPresent /\ cql_type.tag \in PrimitiveTags /\ cql_value.v.kind = cql_type.tag)
    => decoded = Ok(Py(HostPrimitiveOf(cql_type.tag), cql_value.v.data))

\* C10: a present value whose kind differs from the kind a scalar or
\* collection descriptor declares never decodes to a host value.
C10_KindMismatchFails ==
    (/\ DecodedPresent
     /\ cql_type.tag \in ScalarTags \cup {"List", "Set", "Map", "Tuple"}
     /\ cql_value.v.kind # cql_type.tag)
    => ~decoded.ok
====
